---- MODULE Spec2Model ----
(***************************************************************************)
(* The instrumented search engine of src/main.rs (binary_search,           *)
(* interpolation_search, interpolated_binary_search) and the benchmark     *)
(* loop of main that drives it.                                            *)
(*                                                                         *)
(* Indices and values are u32 in the source.  A u32 value v is held here   *)
(* by its two's-complement reading: v itself below 2^31, v - 2^32 from     *)
(* 2^31 on, so 0u32 - 1 is held as -1.  The U* operators below compute on  *)
(* that reading exactly as the 32-bit unsigned operations do.              *)
(*                                                                         *)
(* An arithmetic overflow panics in a build with overflow checks (the      *)
(* debug profile) and wraps in a build without them (the release           *)
(* profile); overflow_checks is the build under test.  Division by zero    *)
(* and an index outside the vector panic in both.                          *)
(***************************************************************************)
EXTENDS Integers, Sequences, FiniteSets

\* ---------------------------------------------------------------- bounds
MaxLen == 5          \* longest vector handed to one search call
MaxVal == 7          \* largest element and target of one search call
NumArrays == 2       \* vectors per benchmark run (1000 in main.rs:145)
ArraySizeEnd == 4    \* exclusive end of the size range (500 in main.rs:146)
RangeStep == 2       \* width of one element window (10 in main.rs:151-152)
MaxProbes == 12      \* loop passes followed in one call (a loop may not end)

\* --------------------------------------------------- program constants
ArraySizeStart == 2
I32Max == 2147483647

VARIABLES
    num_array,        \* the vector of the search call under test
    target_num,       \* its target
    alg,              \* which of the three functions is called
    overflow_checks,  \* TRUE: overflow panics; FALSE: overflow wraps
    frame,            \* the call's locals, position and outcome
    num_arrays,       \* main: the vectors get_num_arrays returned
    search_results,   \* main: the three result collections
    next_index,       \* main: the vector the for loop takes next
    hpc               \* main: "idle", "start", "loop", "done" or "panicked"

vars == <<num_array, target_num, alg, overflow_checks, frame,
          num_arrays, search_results, next_index, hpc>>

\* ------------------------------------------------------ u32 arithmetic
\* a < b as unsigned values
ULt(a, b) ==
    IF (a < 0) = (b < 0) THEN a < b ELSE b < 0

ULe(a, b) == a = b \/ ULt(a, b)

\* a - b leaves the u32 range
USubOverflows(a, b) == ULt(a, b)

\* a - b modulo 2^32
USub(a, b) ==
    IF a >= 0 /\ b < 0 /\ a > I32Max + b
    THEN (a - I32Max - 1) - (b + I32Max + 1)
    ELSE IF a < 0 /\ b >= 0 /\ a < b - I32Max - 1
    THEN (a + I32Max + 1) + (I32Max + 1 - b)
    ELSE a - b

\* a + b leaves the u32 range
UAddOverflows(a, b) ==
    IF a < 0 /\ b < 0 THEN TRUE
    ELSE IF a >= 0 /\ b >= 0 THEN FALSE
    ELSE a + b >= 0

\* a + b modulo 2^32
UAdd(a, b) ==
    IF a >= 0 /\ b >= 0 /\ a > I32Max - b
    THEN (a - I32Max - 1) + (b - I32Max - 1)
    ELSE IF a < 0 /\ b < 0 /\ a < (-I32Max - 1) - b
    THEN (a + I32Max + 1) + (b + I32Max + 1)
    ELSE a + b

\* a / d as unsigned values, d # 0
UDiv(a, d) ==
    IF d < 0 THEN (IF ULe(d, a) THEN 1 ELSE 0)
    ELSE IF a >= 0 THEN a \div d
    ELSE IF d = 1 THEN a
    ELSE 2 * (I32Max \div d) + ((2 * (I32Max % d) + 2 + a) \div d)

\* a * b leaves the u32 range
UMulOverflows(a, b) ==
    a # 0 /\ b # 0 /\ ULt(UDiv(-1, b), a)

\* a * b modulo 2^32, for factors whose product TLC's integers hold
UMul(a, b) == a * b

\* ------------------------------------------------------------- vectors
\* num_array[i as usize]
At(arr, i) == arr[i + 1]

\* the bounds check of num_array[i as usize]
InBounds(arr, i) == i >= 0 /\ i < Len(arr)

StrictlyIncreasing(arr) ==
    \A i \in 1..Len(arr) - 1 : arr[i] < arr[i + 1]

Occurs(arr, t) == \E i \in 1..Len(arr) : arr[i] = t

\* ------------------------------------------------------ one search call
NoResult == [target_index |-> -1, comparison_count |-> 0, array_length |-> 0]

SearchResult(idx, count, arr) ==
    [target_index |-> idx, comparison_count |-> count, array_length |-> Len(arr)]

\* the locals before the call; probes counts the passes made through the
\* loop body and is no local of the source
InitFrame ==
    [pc |-> "entry", start_index |-> 0, end_index |-> 0, comparison_count |-> 0,
     probes |-> 0, result |-> NoResult, panic |-> "none"]

Panic(f, kind) == [f EXCEPT !.pc = "panicked", !.panic = kind]

Return(f, idx, count, arr) ==
    [f EXCEPT !.pc = "returned", !.comparison_count = count,
              !.result = SearchResult(idx, count, arr)]

\* EntryStep without the emptiness check
EntryStepNoEmptyCheck(arr, f) ==
    [f EXCEPT !.pc = "loop", !.start_index = 0,
              !.end_index = USub(Len(arr), 1), !.comparison_count = 1]

\* the emptiness check and the initialisation of the locals
EntryStep(arr, f) ==
    IF Len(arr) = 0
    THEN Return(f, -1, 1, arr)
    ELSE [f EXCEPT !.pc = "loop", !.start_index = 0,
                   !.end_index = Len(arr) - 1, !.comparison_count = 1]

BinaryEntry(arr, f) == EntryStep(arr, f)
InterpEntry(arr, f) == EntryStep(arr, f)
HybridEntry(arr, f) == EntryStep(arr, f)

\* --------------------------------------------------------- binary_search
\* BinaryGuard that stops at a range of one element
BinaryGuardStrict(f) == ULt(f.start_index, f.end_index)

\* while start_index <= end_index
BinaryGuard(f) == ULe(f.start_index, f.end_index)

\* search_index = start_index + (end_index - start_index) / 2
BinaryMid(f) ==
    UAdd(f.start_index, UDiv(USub(f.end_index, f.start_index), 2))

\* if num_array[search_index] < target_num { start_index = search_index + 1 }
\* else { end_index = search_index - 1 }
BinaryNarrow(arr, t, oc, f, si, count) ==
    IF At(arr, si) < t
    THEN IF UAddOverflows(si, 1) /\ oc
         THEN Panic(f, "add_overflow")
         ELSE [f EXCEPT !.start_index = UAdd(si, 1), !.comparison_count = count,
                        !.probes = @ + 1]
    ELSE IF USubOverflows(si, 1) /\ oc
         THEN Panic(f, "sub_overflow")
         ELSE [f EXCEPT !.end_index = USub(si, 1), !.comparison_count = count,
                        !.probes = @ + 1]

\* one pass through the loop body
BinaryBody(arr, t, oc, f) ==
    LET half == UDiv(USub(f.end_index, f.start_index), 2)
        si == BinaryMid(f)
    IN  IF USubOverflows(f.end_index, f.start_index) /\ oc
        THEN Panic(f, "sub_overflow")
        ELSE IF UAddOverflows(f.start_index, half) /\ oc
        THEN Panic(f, "add_overflow")
        ELSE IF ~InBounds(arr, si)
        THEN Panic(f, "index_out_of_bounds")
        ELSE IF At(arr, si) = t
        THEN [Return(f, si, f.comparison_count + 2, arr) EXCEPT !.probes = @ + 1]
        ELSE BinaryNarrow(arr, t, oc, f, si, f.comparison_count + 3)

\* BinaryExit without the charge for the failing loop condition
BinaryExitUncharged(arr, f) == Return(f, -1, f.comparison_count, arr)

\* the loop is left: comparison_count += 1 and the not-found result
BinaryExit(arr, f) == Return(f, -1, f.comparison_count + 1, arr)

BinaryStep(arr, t, oc, f) ==
    IF BinaryGuard(f) THEN BinaryBody(arr, t, oc, f) ELSE BinaryExit(arr, f)

\* -------------------------------------------------- interpolation formula
\* start + (target - a[start]) * (end - start) / (a[end] - a[start]),
\* evaluated operand by operand from the left; panic names the first panic
Interpolate(arr, t, oc, start, end) ==
    LET fail(kind) == [panic |-> kind, index |-> 0]
    IN  IF ~InBounds(arr, start) THEN fail("index_out_of_bounds")
        ELSE IF USubOverflows(t, At(arr, start)) /\ oc THEN fail("sub_overflow")
        ELSE IF USubOverflows(end, start) /\ oc THEN fail("sub_overflow")
        ELSE
        LET x == USub(t, At(arr, start))
            m == USub(end, start)
        IN  IF UMulOverflows(x, m) /\ oc THEN fail("mul_overflow")
            ELSE IF ~InBounds(arr, end) THEN fail("index_out_of_bounds")
            ELSE IF USubOverflows(At(arr, end), At(arr, start)) /\ oc
            THEN fail("sub_overflow")
            ELSE
            LET d == USub(At(arr, end), At(arr, start))
            IN  IF d = 0 THEN fail("div_by_zero")
                ELSE
                LET q == UDiv(UMul(x, m), d)
                IN  IF UAddOverflows(start, q) /\ oc THEN fail("add_overflow")
                    ELSE [panic |-> "none", index |-> UAdd(start, q)]

\* --------------------------------------------------- interpolation_search
\* the vector reads of the loop condition, in its order of evaluation
InterpGuardInBounds(arr, f) ==
    InBounds(arr, f.end_index) /\ InBounds(arr, f.start_index)

\* InterpGuard without the test for equal values at the range's ends
InterpGuardNoDegeneracy(arr, t, f) ==
    /\ t >= At(arr, f.start_index)
    /\ t <= At(arr, f.end_index)

\* while a[end] != a[start] && target >= a[start] && target <= a[end]
InterpGuard(arr, t, f) ==
    /\ At(arr, f.end_index) # At(arr, f.start_index)
    /\ t >= At(arr, f.start_index)
    /\ t <= At(arr, f.end_index)

\* if target < a[interp_index] { end_index = interp_index - 1 }
\* else { start_index = interp_index + 1 }
InterpNarrow(arr, t, oc, f, ii, count) ==
    IF t < At(arr, ii)
    THEN IF USubOverflows(ii, 1) /\ oc
         THEN Panic(f, "sub_overflow")
         ELSE [f EXCEPT !.end_index = USub(ii, 1), !.comparison_count = count,
                        !.probes = @ + 1]
    ELSE IF UAddOverflows(ii, 1) /\ oc
         THEN Panic(f, "add_overflow")
         ELSE [f EXCEPT !.start_index = UAdd(ii, 1), !.comparison_count = count,
                        !.probes = @ + 1]

\* one pass through the loop body
InterpBody(arr, t, oc, f) ==
    LET p == Interpolate(arr, t, oc, f.start_index, f.end_index)
        ii == p.index
    IN  IF p.panic # "none" THEN Panic(f, p.panic)
        ELSE IF ~InBounds(arr, ii) THEN Panic(f, "index_out_of_bounds")
        ELSE IF t = At(arr, ii)
        THEN [Return(f, ii, f.comparison_count + 4, arr) EXCEPT !.probes = @ + 1]
        ELSE InterpNarrow(arr, t, oc, f, ii, f.comparison_count + 5)

\* after the loop: comparison_count += 4 and the check of a[start_index]
InterpExit(arr, t, f) ==
    IF ~InBounds(arr, f.start_index) THEN Panic(f, "index_out_of_bounds")
    ELSE IF t = At(arr, f.start_index)
    THEN Return(f, f.start_index, f.comparison_count + 4, arr)
    ELSE Return(f, -1, f.comparison_count + 4, arr)

InterpStep(arr, t, oc, f) ==
    IF ~InterpGuardInBounds(arr, f) THEN Panic(f, "index_out_of_bounds")
    ELSE IF InterpGuard(arr, t, f) THEN InterpBody(arr, t, oc, f)
    ELSE InterpExit(arr, t, f)

\* --------------------------------------------- interpolated_binary_search
\* while start_index < end_index
HybridGuard(f) == ULt(f.start_index, f.end_index)

\* target > a[inter_index]: bisect [inter_index, end_index]
HybridUpper(arr, t, oc, f, ii, count) ==
    LET mid == UDiv(UAdd(ii, f.end_index), 2)
    IN  IF UAddOverflows(ii, f.end_index) /\ oc THEN Panic(f, "add_overflow")
        ELSE IF ~InBounds(arr, mid) THEN Panic(f, "index_out_of_bounds")
        ELSE IF t <= At(arr, mid)
        THEN IF UAddOverflows(ii, 1) /\ oc THEN Panic(f, "add_overflow")
             ELSE [f EXCEPT !.start_index = UAdd(ii, 1), !.end_index = mid,
                            !.comparison_count = count + 2, !.probes = @ + 1]
        ELSE IF UAddOverflows(mid, 1) /\ oc THEN Panic(f, "add_overflow")
             ELSE [f EXCEPT !.start_index = UAdd(mid, 1),
                            !.comparison_count = count + 2, !.probes = @ + 1]

\* HybridLower that drops the midpoint from the range it keeps
HybridLowerSkipsMid(arr, t, oc, f, ii, count) ==
    LET mid == UDiv(UAdd(ii, f.start_index), 2)
    IN  IF ~InBounds(arr, mid) THEN Panic(f, "index_out_of_bounds")
        ELSE IF t >= At(arr, mid)
        THEN [f EXCEPT !.start_index = UAdd(mid, 1), !.end_index = USub(ii, 1),
                       !.comparison_count = count + 2, !.probes = @ + 1]
        ELSE IF USubOverflows(mid, 1) /\ oc THEN Panic(f, "sub_overflow")
             ELSE [f EXCEPT !.end_index = USub(mid, 1),
                            !.comparison_count = count + 2, !.probes = @ + 1]

\* target < a[inter_index]: bisect [start_index, inter_index]
HybridLower(arr, t, oc, f, ii, count) ==
    LET mid == UDiv(UAdd(ii, f.start_index), 2)
    IN  IF UAddOverflows(ii, f.start_index) /\ oc THEN Panic(f, "add_overflow")
        ELSE IF ~InBounds(arr, mid) THEN Panic(f, "index_out_of_bounds")
        ELSE IF t >= At(arr, mid)
        THEN IF USubOverflows(ii, 1) /\ oc THEN Panic(f, "sub_overflow")
             ELSE [f EXCEPT !.start_index = mid, !.end_index = USub(ii, 1),
                            !.comparison_count = count + 2, !.probes = @ + 1]
        ELSE IF USubOverflows(mid, 1) /\ oc THEN Panic(f, "sub_overflow")
             ELSE [f EXCEPT !.end_index = USub(mid, 1),
                            !.comparison_count = count + 2, !.probes = @ + 1]

\* one pass through the loop body
HybridBody(arr, t, oc, f) ==
    LET p == Interpolate(arr, t, oc, f.start_index, f.end_index)
        ii == p.index
        count == f.comparison_count + 2
    IN  IF p.panic # "none" THEN Panic(f, p.panic)
        ELSE IF ~InBounds(arr, ii) THEN Panic(f, "index_out_of_bounds")
        ELSE IF t > At(arr, ii) THEN HybridUpper(arr, t, oc, f, ii, count)
        ELSE IF t < At(arr, ii) THEN HybridLower(arr, t, oc, f, ii, count)
        ELSE [Return(f, ii, count, arr) EXCEPT !.probes = @ + 1]

\* after the loop: comparison_count += 2 and the check of a[start_index]
HybridExit(arr, t, f) ==
    IF ~InBounds(arr, f.start_index) THEN Panic(f, "index_out_of_bounds")
    ELSE IF t = At(arr, f.start_index)
    THEN Return(f, f.start_index, f.comparison_count + 2, arr)
    ELSE Return(f, -1, f.comparison_count + 2, arr)

HybridStep(arr, t, oc, f) ==
    IF HybridGuard(f) THEN HybridBody(arr, t, oc, f) ELSE HybridExit(arr, t, f)

\* ------------------------------------------------------- a whole call
Step(a, arr, t, oc, f) ==
    IF f.pc = "entry"
    THEN CASE a = "binary" -> BinaryEntry(arr, f)
           [] a = "interp" -> InterpEntry(arr, f)
           [] a = "hybrid" -> HybridEntry(arr, f)
    ELSE CASE a = "binary" -> BinaryStep(arr, t, oc, f)
           [] a = "interp" -> InterpStep(arr, t, oc, f)
           [] a = "hybrid" -> HybridStep(arr, t, oc, f)

RECURSIVE Run(_, _, _, _, _)
Run(a, arr, t, oc, f) ==
    IF f.pc \in {"returned", "panicked"} THEN f
    ELSE Run(a, arr, t, oc, Step(a, arr, t, oc, f))

binary_search(arr, t, oc) == Run("binary", arr, t, oc, InitFrame)
interpolation_search(arr, t, oc) == Run("interp", arr, t, oc, InitFrame)
interpolated_binary_search(arr, t, oc) == Run("hybrid", arr, t, oc, InitFrame)

\* ------------------------------------------------------------ the inputs
Values == 0..MaxVal

\* the non-decreasing vectors of n elements
RECURSIVE SortedOfLen(_)
SortedOfLen(n) ==
    IF n = 0 THEN {<<>>}
    ELSE {Append(arr, v) : <<arr, v>> \in
             {<<arr, v>> \in SortedOfLen(n - 1) \X Values :
                 Len(arr) = 0 \/ arr[Len(arr)] <= v}}

\* every non-decreasing vector of at most MaxLen elements
SortedArrays == UNION {SortedOfLen(n) : n \in 0..MaxLen}

EmptyResults ==
    [binary_search_results |-> <<>>, interp_search_results |-> <<>>,
     interp_binary_search_results |-> <<>>]

\* ------------------------------------ one call of one search function
Init ==
    /\ num_array \in SortedArrays
    /\ target_num \in Values
    /\ alg \in {"binary", "interp", "hybrid"}
    /\ overflow_checks \in BOOLEAN
    /\ frame = InitFrame
    /\ num_arrays = <<>>
    /\ search_results = EmptyResults
    /\ next_index = 1
    /\ hpc = "idle"

harness_vars == <<num_arrays, search_results, next_index, hpc>>
input_vars == <<num_array, target_num, alg, overflow_checks>>

BinaryCall ==
    /\ alg = "binary" /\ frame.pc = "entry"
    /\ frame' = BinaryEntry(num_array, frame)
    /\ UNCHANGED <<input_vars, harness_vars>>

BinaryIterate ==
    /\ alg = "binary" /\ frame.pc = "loop"
    /\ frame.probes < MaxProbes
    /\ BinaryGuard(frame)
    /\ frame' = BinaryStep(num_array, target_num, overflow_checks, frame)
    /\ UNCHANGED <<input_vars, harness_vars>>

BinaryFinish ==
    /\ alg = "binary" /\ frame.pc = "loop"
    /\ ~BinaryGuard(frame)
    /\ frame' = BinaryStep(num_array, target_num, overflow_checks, frame)
    /\ UNCHANGED <<input_vars, harness_vars>>

InterpCall ==
    /\ alg = "interp" /\ frame.pc = "entry"
    /\ frame' = InterpEntry(num_array, frame)
    /\ UNCHANGED <<input_vars, harness_vars>>

\* the loop condition holds, or a vector read of it panics
InterpContinues(arr, t, f) ==
    ~InterpGuardInBounds(arr, f) \/ InterpGuard(arr, t, f)

InterpIterate ==
    /\ alg = "interp" /\ frame.pc = "loop"
    /\ frame.probes < MaxProbes
    /\ InterpContinues(num_array, target_num, frame)
    /\ frame' = InterpStep(num_array, target_num, overflow_checks, frame)
    /\ UNCHANGED <<input_vars, harness_vars>>

InterpFinish ==
    /\ alg = "interp" /\ frame.pc = "loop"
    /\ ~InterpContinues(num_array, target_num, frame)
    /\ frame' = InterpStep(num_array, target_num, overflow_checks, frame)
    /\ UNCHANGED <<input_vars, harness_vars>>

HybridCall ==
    /\ alg = "hybrid" /\ frame.pc = "entry"
    /\ frame' = HybridEntry(num_array, frame)
    /\ UNCHANGED <<input_vars, harness_vars>>

HybridIterate ==
    /\ alg = "hybrid" /\ frame.pc = "loop"
    /\ frame.probes < MaxProbes
    /\ HybridGuard(frame)
    /\ frame' = HybridStep(num_array, target_num, overflow_checks, frame)
    /\ UNCHANGED <<input_vars, harness_vars>>

HybridFinish ==
    /\ alg = "hybrid" /\ frame.pc = "loop"
    /\ ~HybridGuard(frame)
    /\ frame' = HybridStep(num_array, target_num, overflow_checks, frame)
    /\ UNCHANGED <<input_vars, harness_vars>>

Next ==
    \/ BinaryCall \/ BinaryIterate \/ BinaryFinish
    \/ InterpCall \/ InterpIterate \/ InterpFinish
    \/ HybridCall \/ HybridIterate \/ HybridFinish

Spec == Init /\ [][Next]_vars

\* ----------------------------------------------------- get_num_arrays
\* element k of a vector is drawn from [k * RangeStep, k * RangeStep + RangeStep)
GenArrays ==
    UNION {{arr \in [1..n -> 0..(n * RangeStep - 1)] :
                \A k \in 1..n : /\ arr[k] >= (k - 1) * RangeStep
                                /\ arr[k] < (k - 1) * RangeStep + RangeStep} :
           n \in ArraySizeStart..(ArraySizeEnd - 1)}

IndexPermutations(n) ==
    {p \in [1..n -> 1..n] : \A i, j \in 1..n : i # j => p[i] # p[j]}

\* SortUnstableByKeyLen that leaves the vectors as generated
SortUnstableByKeyLenSkipped(arrays) == {arrays}

\* num_arrays.sort_unstable_by_key(Vec::len): every order the sort may leave
SortUnstableByKeyLen(arrays) ==
    {sorted \in {[i \in 1..Len(arrays) |-> arrays[p[i]]] :
                    p \in IndexPermutations(Len(arrays))} :
        \A i \in 1..Len(sorted) - 1 : Len(sorted[i]) <= Len(sorted[i + 1])}

\* the vectors get_num_arrays may return when its loop makes count of them
GetNumArrays(count) ==
    UNION {SortUnstableByKeyLen(generated) :
           generated \in [1..count -> GenArrays]}

\* ------------------------------------------------------------------ main
Push(results, field, f) ==
    [results EXCEPT ![field] = Append(@, f.result)]

\* the body of the for loop with the target at position pick; a search that
\* panics ends main with the pushes made before it
MainBody(arr, pick, oc, results) ==
    LET t == At(arr, pick)
        b == binary_search(arr, t, oc)
        i == interpolation_search(arr, t, oc)
        h == interpolated_binary_search(arr, t, oc)
        r1 == Push(results, "binary_search_results", b)
        r2 == Push(r1, "interp_search_results", i)
        r3 == Push(r2, "interp_binary_search_results", h)
    IN  IF b.pc = "panicked" THEN [results |-> results, pc |-> "panicked"]
        ELSE IF i.pc = "panicked" THEN [results |-> r1, pc |-> "panicked"]
        ELSE IF h.pc = "panicked" THEN [results |-> r2, pc |-> "panicked"]
        ELSE [results |-> r3, pc |-> "loop"]

HarnessInit ==
    /\ num_array = <<>>
    /\ target_num = 0
    /\ alg = "binary"
    /\ overflow_checks \in BOOLEAN
    /\ frame = InitFrame
    /\ num_arrays = <<>>
    /\ search_results = EmptyResults
    /\ next_index = 1
    /\ hpc = "start"

engine_vars == <<input_vars, frame>>

MainStart ==
    /\ hpc = "start"
    /\ num_arrays' \in GetNumArrays(NumArrays)
    /\ hpc' = "loop"
    /\ UNCHANGED <<engine_vars, search_results, next_index>>

\* gen_range(0..len - 1) panics on an empty range
MainIterate ==
    /\ hpc = "loop"
    /\ next_index <= Len(num_arrays)
    /\ LET arr == num_arrays[next_index]
       IN  IF Len(arr) < 2
           THEN hpc' = "panicked" /\ UNCHANGED <<search_results, next_index>>
           ELSE \E pick \in 0..(Len(arr) - 2) :
                  LET out == MainBody(arr, pick, overflow_checks, search_results)
                  IN  /\ search_results' = out.results
                      /\ hpc' = out.pc
                      /\ next_index' = next_index + 1
    /\ UNCHANGED <<engine_vars, num_arrays>>

\* the loop is over: main goes on to write and draw the collections
MainFinish ==
    /\ hpc = "loop"
    /\ next_index > Len(num_arrays)
    /\ hpc' = "done"
    /\ UNCHANGED <<engine_vars, num_arrays, search_results, next_index>>

HarnessNext == MainStart \/ MainIterate \/ MainFinish

HarnessSpec == HarnessInit /\ [][HarnessNext]_vars

\* ============================================================ properties
Ended == frame.pc \in {"returned", "panicked"}
Returned == frame.pc = "returned"
Found == Returned /\ frame.result.target_index # -1
NotFound == Returned /\ frame.result.target_index = -1

\* the result names a position of the vector that holds the target
FoundAtTarget ==
    /\ Found
    /\ InBounds(num_array, frame.result.target_index)
    /\ At(num_array, frame.result.target_index) = target_num

AllEqual(arr) == \A i, j \in 1..Len(arr) : arr[i] = arr[j]

OutOfRange(arr, t) == Len(arr) > 0 /\ (t < arr[1] \/ t > arr[Len(arr)])

\* high - low of frame g is strictly below that of frame f, as unsigned values
RangeShrinks(f, g) ==
    LET wraps(h) == (IF h.end_index < 0 THEN 1 ELSE 0)
                    - (IF h.start_index < 0 THEN 1 ELSE 0)
        width(h) == h.end_index - h.start_index
    IN  \/ wraps(g) < wraps(f)
        \/ wraps(g) = wraps(f) /\ width(g) < width(f)

\* C1: a call whose target occurs in the vector ends by returning a position
\* that holds the target, for each of the three functions.
C1_PresentTargetFound ==
    (Ended /\ Occurs(num_array, target_num)) => FoundAtTarget

\* C2: a call on a non-empty vector whose target lies below its first or
\* above its last element ends by returning not-found (target_index = -1),
\* never by a panic, for each of the three functions.
C2_OutOfRangeNotFound ==
    (Ended /\ OutOfRange(num_array, target_num)) => NotFound

\* C3: on a vector of equal elements and a target equal to them,
\* interpolation_search and interpolated_binary_search never divide by zero
\* and end by returning a position that holds the target.
C3_AllEqualFound ==
    (/\ alg \in {"interp", "hybrid"}
     /\ Len(num_array) >= 1 /\ AllEqual(num_array)
     /\ target_num = num_array[1])
    => /\ frame.panic # "div_by_zero"
       /\ Ended => FoundAtTarget

\* C4: a call on the empty vector returns target_index = -1 with
\* comparison_count = 1 and array_length = 0 and never enters the loop.
C4_EmptyNotFound ==
    Len(num_array) = 0 =>
        /\ frame.pc \in {"entry", "returned"}
        /\ frame.probes = 0
        /\ Returned =>
             frame.result = [target_index |-> -1, comparison_count |-> 1,
                             array_length |-> 0]

C4_Witness ==
    /\ Len(num_array) = 0 /\ alg = "hybrid" /\ target_num = MaxVal
    /\ Returned /\ frame.result.comparison_count = 1

\* C5: every pass through a loop that does not return leaves the range
\* [start_index, end_index] strictly narrower, and no call ends without a
\* result.
C5_EveryPassShrinks ==
    [][frame.pc = "loop" =>
          \/ frame'.pc = "returned"
          \/ frame'.pc = "loop" /\ RangeShrinks(frame, frame')]_vars

\* C6: in interpolation_search every loop pass has a non-zero divisor,
\* target >= a[start], a probe inside [start, end], end = probe - 1 only with
\* probe >= 1 and start = probe + 1 only with probe < end; the function never
\* overflows, divides by zero or indexes outside the vector.
C6_InterpolationSafe ==
    alg = "interp" =>
        /\ frame.pc # "panicked"
        /\ frame.pc = "loop" =>
             /\ InterpGuardInBounds(num_array, frame)
             /\ frame.start_index <= frame.end_index
             /\ InterpGuard(num_array, target_num, frame) =>
                  LET p == Interpolate(num_array, target_num, TRUE,
                                       frame.start_index, frame.end_index)
                  IN  /\ At(num_array, frame.end_index)
                            # At(num_array, frame.start_index)
                      /\ target_num >= At(num_array, frame.start_index)
                      /\ p.panic = "none"
                      /\ frame.start_index <= p.index
                      /\ p.index <= frame.end_index
                      /\ target_num < At(num_array, p.index) =>
                            p.index >= 1 /\ p.index > frame.start_index
                      /\ target_num > At(num_array, p.index) =>
                            p.index < frame.end_index

\* a second pass is about to narrow from above (end_index = probe - 1)
C6_Witness ==
    /\ alg = "interp" /\ frame.pc = "loop" /\ frame.probes >= 1
    /\ InterpGuardInBounds(num_array, frame)
    /\ InterpGuard(num_array, target_num, frame)
    /\ LET p == Interpolate(num_array, target_num, TRUE,
                            frame.start_index, frame.end_index)
       IN  p.panic = "none" /\ target_num < At(num_array, p.index)

\* C7: binary_search returns comparison_count = 3k when it finds the target
\* on its k-th probe and 3k + 2 when it returns not-found after k probes.
C7_BinaryCountAnyVector ==
    (alg = "binary" /\ Returned) =>
        /\ Found => frame.result.comparison_count = 3 * frame.probes
        /\ NotFound => frame.result.comparison_count = 3 * frame.probes + 2

\* C7 (amended): on a non-empty vector binary_search returns comparison_count
\* = 3k when it finds the target on its k-th probe and 3k + 2 when it returns
\* not-found after k probes; on the empty vector it returns 1 after no probe.
\* Every probe is at start + (end - start) / 2, the floor of the mean of the
\* range's ends, inside the range.
C7_BinaryCount ==
    alg = "binary" =>
        /\ (Returned /\ Len(num_array) > 0) =>
             /\ Found => frame.result.comparison_count = 3 * frame.probes
             /\ NotFound => frame.result.comparison_count = 3 * frame.probes + 2
        /\ (Returned /\ Len(num_array) = 0) =>
             frame.result.comparison_count = 1 /\ frame.probes = 0
        /\ (frame.pc = "loop" /\ BinaryGuard(frame) /\ frame.end_index >= 0) =>
             /\ 2 * BinaryMid(frame) <= frame.start_index + frame.end_index
             /\ 2 * BinaryMid(frame) + 1 >= frame.start_index + frame.end_index

\* not-found after two probes, 8 comparisons
C7_Witness ==
    /\ alg = "binary" /\ NotFound /\ frame.probes = 2
    /\ frame.result.comparison_count = 8

C10_BinaryFromFirst ==
    (alg = "binary" /\ Len(num_array) > 0 /\ target_num >= num_array[1]) =>
        /\ frame.pc # "panicked"
        /\ frame.end_index >= 0
        /\ (frame.pc = "loop" /\ BinaryGuard(frame)) =>
             /\ InBounds(num_array, BinaryMid(frame))
             /\ BinaryMid(frame) = 0 =>
                  At(num_array, 0) <= target_num
        /\ Returned => (Found <=> Occurs(num_array, target_num))
        /\ Found => FoundAtTarget

\* not-found for a target between two elements, after the range emptied
C10_Witness ==
    /\ alg = "binary" /\ Len(num_array) > 1
    /\ target_num > num_array[1] /\ target_num < num_array[Len(num_array)]
    /\ NotFound /\ frame.start_index > frame.end_index

\* C8: the vectors are ordered by length before the loop runs; after every
\* pass of the loop the three collections have one entry per vector taken,
\* entry i of each carries the length of vector i, and the lengths never
\* decrease along a collection.
C8_AlignedResults ==
    hpc \in {"loop", "done"} =>
        LET b == search_results.binary_search_results
            i == search_results.interp_search_results
            h == search_results.interp_binary_search_results
        IN  /\ \A k \in 1..Len(num_arrays) - 1 :
                  Len(num_arrays[k]) <= Len(num_arrays[k + 1])
            /\ Len(b) = next_index - 1
            /\ Len(i) = Len(b) /\ Len(h) = Len(b)
            /\ \A k \in 1..Len(b) :
                  /\ b[k].array_length = Len(num_arrays[k])
                  /\ i[k].array_length = b[k].array_length
                  /\ h[k].array_length = b[k].array_length
            /\ \A k \in 1..Len(b) - 1 :
                  b[k].array_length <= b[k + 1].array_length

\* the loop is over, with vectors of different lengths
C8_Witness ==
    /\ hpc = "done"
    /\ Len(search_results.interp_binary_search_results) = NumArrays
    /\ search_results.binary_search_results[1].array_length
          < search_results.binary_search_results[NumArrays].array_length

====
